---- MODULE Spec2Model ----
(***************************************************************************)
(* Avatar runtime of the VRM viewer: the animation crossfade controller    *)
(* (VrmViewer.tsx, handleAnimation) and the text-driven lip-sync scheduler *)
(* (ChatBox.tsx, handleSend; lib/lipSync.ts).                              *)
(*                                                                         *)
(* Time.  The mixer clock is counted in quarter seconds, so the 0.5 s      *)
(* crossfade lasts FadeDuration = 2 units and a weight is an integer in    *)
(* 0..Full (Full = weight 1.0).  The lip-sync clock (performance.now, the  *)
(* requestAnimationFrame timestamp) is counted in whole seconds; a frame   *)
(* timestamp index * (duration / length) is kept as the exact fraction     *)
(* num/den.  Viseme weights are kept in tenths (0.8 is 8).                 *)
(***************************************************************************)
EXTENDS Integers, Sequences, FiniteSets, TLC

\* ---------------------------------------------------------------- bounds
MaxVrms    == 2   \* avatars ever selected (avatar 1 is the default model)
MaxActions == 3   \* action objects held by the mixers at one time
MaxLoads   == 1   \* animation loads in flight at one time
MaxDelta   == 2   \* largest frame delta handed to mixer.update
MaxTime    == 4   \* last value of the lip-sync clock
MaxQueue   == 2   \* media events queued for one audio element
MaxTextLen == 3   \* characters of a text handed to generateLipSyncData
MaxTracks  == 2   \* tracks of the clip of an FBX file
MaxInFlight == 2  \* animation loads in flight when requests overlap

\* ------------------------------------------------------ program constants
FadeDuration == 2             \* crossFadeTo(newAction, 0.5, true)
Full         == FadeDuration  \* weight 1.0 on the integer weight scale
EstimateDuration == 3         \* audio.duration || 3

Null   == 0
NoFade == <<>>   \* _weightInterpolant === null; a fade is <<from, to, elapsed>>

VrmIds    == 1..MaxVrms
ActionIds == 1..MaxActions

\* Animation urls: name of the clip and what the url ends with.  A dropped
\* file is handed over as an object url, which ends with neither extension.
ClipNames == {"idle", "wave"}
AnimUrl(name, ext) == [name |-> name, ext |-> ext]
LoadOutcomes == {"clip", "reject", "noanim"}

VARIABLES
  vrmUrl,         \* avatar requested last (useState vrmUrl)
  vrmLoads,       \* avatar loads in flight (loader.load callbacks pending)
  currentVrm,     \* loaded avatar or Null (useState currentVrm)
  mixer,          \* mixer.current: avatar the mixer animates, or Null
  currentAction,  \* currentAction.current: action id or Null
  currentClip,    \* currentAction.current.getClip().name, "" when Null
  actions,        \* action objects: ActionIds -> record or NoAction
  loads,          \* handleAnimation calls suspended in their await, in issue order
  error,          \* useState error: "none", or who set the message shown:
                  \* "animation" (handleAnimation's catch), "model" (avatar load)
  lastOp          \* history: <<handler that ran last, its audio session or 0>>,
                  \* see Observed

viewerVars ==
  <<vrmUrl, vrmLoads, currentVrm, mixer, currentAction, currentClip, actions, loads, error>>

VARIABLES
  now,        \* performance.now() and the animation-frame timestamp
  isLoading,  \* useState isLoading: a handleSend is awaiting the services
  sendCap,    \* currentVrm inside the onExpressionChange that handleSend closed over
  sess,       \* Slots -> the audio element and the closure variables of its handlers
  mouth,      \* VrmIds -> weights of the four mouth shapes of that avatar
  emotion     \* VrmIds -> weights of the five emotion expressions of that avatar

chatVars == <<now, isLoading, sendCap, sess, mouth, emotion>>

\* one call of a library function: where it stands, its arguments, and what
\* it has computed so far
VARIABLES libPc, libArgs, libRet

libVars == <<libPc, libArgs, libRet>>

\* lastOp names the handler that ran last when it is one of these, with its
\* audio session; "catch" stands for a run of handleAnimation that ended in
\* its catch block (lines 202-205).  Any other handler leaves <<"other", 0>>.
Observed ==
  {"LoadResolve", "catch",
   "SendComplete", "play", "pause", "ended", "Tick", "AdvanceClock"}
Op(name, s) == IF name \in Observed THEN <<name, s>> ELSE <<"other", 0>>

\* ------------------------------------------------- THREE.AnimationAction
\* The table holds what the mixer keeps of each action object; the clip an
\* action plays is followed for the current action only (currentClip).
\* an empty slot of the action table
NoAction ==
  [vrm |-> Null, mixer |-> Null, enabled |-> FALSE,
   active |-> FALSE, effW |-> 0, fade |-> NoFade]

\* new AnimationAction: weight 1, enabled, not scheduled, no weight interpolant
NewAction(vrm, mx) ==
  [vrm |-> vrm, mixer |-> mx, enabled |-> TRUE,
   active |-> FALSE, effW |-> Full, fade |-> NoFade]

\* action.reset(): enabled again, fading stopped
reset(a) == [a EXCEPT !.enabled = TRUE, !.fade = NoFade]

\* action.play(): the mixer schedules the action
play(a) == [a EXCEPT !.active = TRUE]

\* action.fadeOut(d) / fadeIn(d): a weight interpolant from..to that starts now
fadeOut(a) == [a EXCEPT !.fade = <<Full, 0, 0>>]
fadeIn(a)  == [a EXCEPT !.fade = <<0, Full, 0>>]

\* value of the linear weight interpolant e units after its start (clamped)
FadeValue(f, e) ==
  LET c == IF e > FadeDuration THEN FadeDuration ELSE e
  IN  f[1] + ((f[2] - f[1]) * c) \div FadeDuration


\* variant: an action that has faded out is never disabled
updateWeight_KeepsEnabled(a, delta) ==
  IF ~a.enabled THEN [a EXCEPT !.effW = 0]
  ELSE IF a.fade = NoFade THEN [a EXCEPT !.effW = Full]
  ELSE LET e == a.fade[3] + delta
           v == FadeValue(a.fade, e)
       IN  IF e > FadeDuration
             THEN [a EXCEPT !.effW = v, !.fade = NoFade]
             ELSE [a EXCEPT !.effW = v, !.fade[3] = e]

\* AnimationAction._update / _updateWeight for one mixer.update(delta)
updateWeight(a, delta) ==
  IF ~a.enabled THEN [a EXCEPT !.effW = 0]
  ELSE IF a.fade = NoFade THEN [a EXCEPT !.effW = Full]
  ELSE LET e == a.fade[3] + delta
           v == FadeValue(a.fade, e)
       IN  IF e > FadeDuration
             THEN [a EXCEPT !.effW = v, !.fade = NoFade, !.enabled = (v # 0)]
             ELSE [a EXCEPT !.effW = v, !.fade[3] = e]

\* an action object nothing will change or read again: it is not the current
\* action and it is disabled with its fade over, or it belongs to a mixer that
\* is no longer mixer.current.  The table forgets such objects.
Inert(id) ==
  /\ actions[id] # NoAction
  /\ id # currentAction
  /\ \/ ~actions[id].enabled /\ actions[id].fade = NoFade
     \/ actions[id].mixer # mixer

FreeSlots == {id \in ActionIds : actions[id] = NoAction}

\* Slot numbers only name action objects.  mixer.update keeps the table
\* packed: the objects that are kept move down to the lowest slots, in their
\* order, and currentAction follows its object.
Kept == {id \in ActionIds : actions[id] # NoAction /\ ~Inert(id)}
SlotOf(id) == Cardinality({j \in Kept : j <= id})
ObjectAt(k) == CHOOSE id \in Kept : SlotOf(id) = k

\* mixer.clipAction(clip) for a clip object that was just built: a new action
clipAction == CHOOSE id \in FreeSlots : \A o \in FreeSlots : id <= o


\* variant: the new action fades in but the current one is not faded out
crossfadeRequest_NoFadeOut(clip, vrm) ==
  LET id  == clipAction
      new == reset(NewAction(vrm, mixer))
  IN  /\ actions' =
           IF currentAction # Null
             THEN [actions EXCEPT ![id] = play(fadeIn(new))]
             ELSE [actions EXCEPT ![id] = play(new)]
      /\ currentAction' = id
      /\ currentClip' = clip

\* variant: the new action fades in even when nothing is playing
crossfadeRequest_AlwaysFadeIn(clip, vrm) ==
  LET id  == clipAction
      new == reset(NewAction(vrm, mixer))
  IN  /\ actions' =
           IF currentAction # Null
             THEN [actions EXCEPT ![currentAction] = fadeOut(@),
                                  ![id] = play(fadeIn(new))]
             ELSE [actions EXCEPT ![id] = play(fadeIn(new))]
      /\ currentAction' = id
      /\ currentClip' = clip

\* lines 192-200: the crossfade controller's request(newAction)
crossfadeRequest(clip, vrm) ==
  LET id  == clipAction
      new == reset(NewAction(vrm, mixer))
  IN  /\ actions' =
           IF currentAction # Null
             THEN [actions EXCEPT ![currentAction] = fadeOut(@),
                                  ![id] = play(fadeIn(new))]
             ELSE [actions EXCEPT ![id] = play(new)]
      /\ currentAction' = id
      /\ currentClip' = clip

\* ------------------------------------------------------- handleAnimation
\* the part of handleAnimation that runs before its await, as a function of
\* the request state rs = [loads, error]; capVrm is the closure's currentVrm,
\* mx the value of mixer.current at the call.  newer is history: the clip of
\* the newest request issued after this one that has installed its action
\* already, "" when there is none
handleAnimation(rs, url, capVrm, mx) ==
  IF capVrm = Null \/ mx = Null THEN rs
  ELSE IF url.ext \notin {"fbx", "glb"}
    THEN [rs EXCEPT !.error = "animation"]
    ELSE [rs EXCEPT !.loads = Append(@, [name |-> url.name, vrm |-> capVrm,
                                         newer |-> ""])]

RemoveAt(s, i) == SubSeq(s, 1, i - 1) \o SubSeq(s, i + 1, Len(s))

\* the calls still suspended once call i has installed its action: it has
\* overtaken those issued before it
Overtaken(s, i) ==
  [j \in 1..(Len(s) - 1) |->
     IF j < i THEN [s[j] EXCEPT !.newer = IF s[i].newer = "" THEN s[i].name ELSE @]
     ELSE s[j + 1]]

\* the await of handleAnimation resumes with a clip
LoadResolve(i) ==
  /\ i \in 1..Len(loads)
  /\ IF mixer = Null
       THEN \* mixer.current.clipAction throws a TypeError, caught at line 202
            /\ loads' = RemoveAt(loads, i)
            /\ error' = "animation"
            /\ lastOp' = Op("catch", 0)
            /\ UNCHANGED <<actions, currentAction, currentClip>>
       ELSE /\ FreeSlots # {}   \* the table holds at most MaxActions objects
            /\ loads' = Overtaken(loads, i)
            /\ crossfadeRequest(loads[i].name, loads[i].vrm)
            /\ lastOp' = Op("LoadResolve", 0)
            /\ UNCHANGED error
  /\ UNCHANGED <<vrmUrl, vrmLoads, currentVrm, mixer>>
  /\ UNCHANGED <<chatVars, libVars>>


\* variant: the catch block also forgets the current action
LoadFail_DropsCurrent(i, outcome) ==
  /\ i \in 1..Len(loads)
  /\ outcome \in LoadOutcomes \ {"clip"}
  /\ loads' = RemoveAt(loads, i)
  /\ error' = "animation"
  /\ currentAction' = Null
  /\ currentClip' = ""
  /\ lastOp' = Op("catch", 0)
  /\ UNCHANGED <<vrmUrl, vrmLoads, currentVrm, mixer, actions>>
  /\ UNCHANGED <<chatVars, libVars>>

\* the await of handleAnimation throws: loader rejection, or no animation
LoadFail(i, outcome) ==
  /\ i \in 1..Len(loads)
  /\ outcome \in LoadOutcomes \ {"clip"}
  /\ loads' = RemoveAt(loads, i)
  /\ error' = "animation"
  /\ lastOp' = Op("catch", 0)
  /\ UNCHANGED <<vrmUrl, vrmLoads, currentVrm, mixer, currentAction, currentClip, actions>>
  /\ UNCHANGED <<chatVars, libVars>>

\* ------------------------------------------------------------ avatar load
\* handleFileLoad with a .vrm file, then the load effect of lines 123-131.
\* The actions of the mixer that was dropped can no longer be reached.
SelectAvatar ==
  /\ vrmUrl < MaxVrms
  /\ vrmUrl' = vrmUrl + 1
  /\ mixer' = Null
  /\ currentAction' = Null
  /\ currentClip' = ""
  /\ actions' = [id \in ActionIds |-> NoAction]
  /\ currentVrm' = Null
  /\ error' = "none"
  /\ vrmLoads' = vrmLoads \cup {vrmUrl + 1}
  /\ lastOp' = Op("SelectAvatar", 0)
  /\ UNCHANGED loads
  /\ UNCHANGED <<chatVars, libVars>>

\* loader.load success callback (lines 132-160), then the default-idle
\* effect of lines 209-221 that the new currentVrm triggers
AvatarLoaded(v) ==
  /\ v \in vrmLoads
  /\ Len(loads) < MaxLoads
  /\ vrmLoads' = vrmLoads \ {v}
  /\ currentVrm' = v
  /\ mixer' = v
  /\ LET r == handleAnimation([loads |-> loads, error |-> error],
                              AnimUrl("idle", "fbx"), v, v)
     IN  loads' = r.loads /\ error' = r.error
  /\ lastOp' = Op("AvatarLoaded", 0)
  /\ UNCHANGED <<vrmUrl, currentAction, currentClip, actions>>
  /\ UNCHANGED <<chatVars, libVars>>

\* loader.load error callback, or a file without VRM data
AvatarLoadFail(v) ==
  /\ v \in vrmLoads
  /\ vrmLoads' = vrmLoads \ {v}
  /\ error' = "model"
  /\ lastOp' = Op("AvatarLoadFail", 0)
  /\ UNCHANGED <<vrmUrl, currentVrm, mixer, currentAction, currentClip, actions, loads>>
  /\ UNCHANGED <<chatVars, libVars>>

\* ------------------------------------------------------- user requests
\* handlePresetAnimationChange: a .fbx or .glb file of the animations folder
PresetAnimation(name, ext) ==
  /\ name \in ClipNames /\ ext \in {"fbx", "glb"}
  /\ Len(loads) < MaxLoads
  /\ LET r == handleAnimation([loads |-> loads, error |-> error],
                              AnimUrl(name, ext), currentVrm, mixer)
     IN  loads' = r.loads /\ error' = r.error
  /\ lastOp' = Op("PresetAnimation", 0)
  /\ UNCHANGED <<vrmUrl, vrmLoads, currentVrm, mixer, currentAction, currentClip, actions>>
  /\ UNCHANGED <<chatVars, libVars>>

\* a preset chosen while earlier requests are still loading: nothing in the
\* viewer holds a request back
PresetWhileLoading(name) ==
  /\ name \in ClipNames
  /\ Len(loads) \in 1..(MaxInFlight - 1)
  /\ LET r == handleAnimation([loads |-> loads, error |-> error],
                              AnimUrl(name, "fbx"), currentVrm, mixer)
     IN  loads' = r.loads /\ error' = r.error
  /\ lastOp' = Op("PresetAnimation", 0)
  /\ UNCHANGED <<vrmUrl, vrmLoads, currentVrm, mixer, currentAction, currentClip, actions>>
  /\ UNCHANGED <<chatVars, libVars>>

\* handleFileLoad with a .fbx or .glb file: the object url has no extension
DropAnimation(name) ==
  /\ name \in ClipNames
  /\ LET r == handleAnimation([loads |-> loads, error |-> "none"],
                              AnimUrl(name, "blob"), currentVrm, mixer)
     IN  loads' = r.loads /\ error' = r.error
  /\ lastOp' = IF currentVrm # Null /\ mixer # Null   \* past the guard: throws
                 THEN Op("catch", 0) ELSE Op("DropAnimation", 0)
  /\ UNCHANGED <<vrmUrl, vrmLoads, currentVrm, mixer, currentAction, currentClip, actions>>
  /\ UNCHANGED <<chatVars, libVars>>

\* --------------------------------------------------------- render frame
\* AnimationManager useFrame: mixer.current.update(delta)
MixerUpdate(delta) ==
  /\ delta >= 1
  /\ mixer # Null
  /\ actions' = [k \in ActionIds |->
                   IF k > Cardinality(Kept) THEN NoAction
                   ELSE LET a == actions[ObjectAt(k)]
                        IN  IF a.mixer = mixer /\ a.active
                              THEN updateWeight(a, delta)
                              ELSE a]
  /\ currentAction' = IF currentAction = Null THEN Null ELSE SlotOf(currentAction)
  /\ lastOp' = Op("MixerUpdate", 0)
  /\ UNCHANGED <<vrmUrl, vrmLoads, currentVrm, mixer, currentClip, loads, error>>
  /\ UNCHANGED <<chatVars, libVars>>


\* ============================================================ lib/lipSync.ts
\* A text is a sequence of one-character strings.
Vowels       == {"a", "e", "i", "o", "u"}
Consonants   == {"b", "p", "m", "f", "v", "w", "r"}
LowerLetters == Vowels \cup Consonants \cup {"h", "s", "y", "t"}
UpperOf      == [c \in {"H", "B"} |-> IF c = "H" THEN "h" ELSE "b"]
Digits       == {"7"}
Whitespace   == {" "}
Punctuation  == {"!", ","}

\* the four VRM mouth shapes and the five emotion expressions
VisemeNames  == {"aa", "ih", "ou", "ee"}
EmotionNames == {"happy", "angry", "sad", "relaxed", "surprised"}

Viseme(aa, ih, ou, ee) == [aa |-> aa, ih |-> ih, ou |-> ou, ee |-> ee]
ZeroViseme == Viseme(0, 0, 0, 0)

\* PHONEME_MAP, weights in tenths
PhonemeKeys ==
  {"a", "e", "i", "o", "u", "ay", "ee", "oo", "ow",
   "b", "p", "m", "f", "v", "w", "r", "default"}

PHONEME_MAP ==
  [k \in PhonemeKeys |->
     CASE k = "a"  -> Viseme(8, 0, 0, 0)
       [] k = "e"  -> Viseme(0, 7, 0, 0)
       [] k = "i"  -> Viseme(0, 9, 0, 0)
       [] k = "o"  -> Viseme(0, 0, 8, 0)
       [] k = "u"  -> Viseme(0, 0, 9, 0)
       [] k = "ay" -> Viseme(6, 0, 0, 4)
       [] k = "ee" -> Viseme(0, 0, 0, 9)
       [] k = "oo" -> Viseme(0, 0, 10, 0)
       [] k = "ow" -> Viseme(5, 0, 5, 0)
       [] k = "b"  -> Viseme(0, 0, 0, 0)
       [] k = "p"  -> Viseme(0, 0, 0, 0)
       [] k = "m"  -> Viseme(0, 0, 0, 0)
       [] k = "f"  -> Viseme(0, 3, 0, 0)
       [] k = "v"  -> Viseme(0, 3, 0, 0)
       [] k = "w"  -> Viseme(0, 0, 7, 0)
       [] k = "r"  -> Viseme(0, 0, 5, 0)
       [] OTHER    -> Viseme(2, 0, 0, 0)]

\* text.toLowerCase()
toLowerCase(text) ==
  [i \in 1..Len(text) |-> IF text[i] \in DOMAIN UpperOf THEN UpperOf[text[i]] ELSE text[i]]

\* \w and \s of the regular expressions
IsWordChar(c) == c \in LowerLetters \cup DOMAIN UpperOf \cup Digits \cup {"_"}
IsSpace(c)    == c \in Whitespace

\* .replace(/[^\w\s]/g, '')
stripPunctuation(text) == SelectSeq(text, LAMBDA c : IsWordChar(c) \/ IsSpace(c))

\* .split(/\s+/): the pieces between maximal runs of whitespace, empty pieces
\* at either end included
RECURSIVE splitWhitespace(_)
splitWhitespace(text) ==
  LET ws == {i \in 1..Len(text) : IsSpace(text[i])}
  IN  IF ws = {} THEN <<text>>
      ELSE LET i    == CHOOSE k \in ws : \A o \in ws : k <= o
               rest == {k \in (i + 1)..Len(text) : ~IsSpace(text[k])}
               j    == IF rest = {} THEN Len(text) + 1
                       ELSE CHOOSE k \in rest : \A o \in rest : k <= o
           IN  <<SubSeq(text, 1, i - 1)>> \o splitWhitespace(SubSeq(text, j, Len(text)))

RECURSIVE wordPhonemes_NoSkip(_, _)
wordPhonemes_NoSkip(word, i) ==
  IF i > Len(word) THEN <<>>
  ELSE LET char == word[i]
           next == IF i + 1 <= Len(word) THEN word[i + 1] ELSE "undefined"
       IN  IF char = "e" /\ next = "e" THEN <<"ee">> \o wordPhonemes_NoSkip(word, i + 1)
           ELSE IF char = "o" /\ next = "o" THEN <<"oo">> \o wordPhonemes_NoSkip(word, i + 1)
           ELSE IF char = "a" /\ next = "y" THEN <<"ay">> \o wordPhonemes_NoSkip(word, i + 1)
           ELSE IF char = "o" /\ next = "w" THEN <<"ow">> \o wordPhonemes_NoSkip(word, i + 1)
           ELSE IF char \in Vowels THEN <<char>> \o wordPhonemes_NoSkip(word, i + 1)
           ELSE IF char \in Consonants THEN <<char>> \o wordPhonemes_NoSkip(word, i + 1)
           ELSE <<"default">> \o wordPhonemes_NoSkip(word, i + 1)

\* the for loop of textToPhonemes over one word, from position i (1-based)
RECURSIVE wordPhonemes(_, _)
wordPhonemes(word, i) ==
  IF i > Len(word) THEN <<>>
  ELSE LET char == word[i]
           next == IF i + 1 <= Len(word) THEN word[i + 1] ELSE "undefined"
       IN  IF char = "e" /\ next = "e" THEN <<"ee">> \o wordPhonemes(word, i + 2)
           ELSE IF char = "o" /\ next = "o" THEN <<"oo">> \o wordPhonemes(word, i + 2)
           ELSE IF char = "a" /\ next = "y" THEN <<"ay">> \o wordPhonemes(word, i + 2)
           ELSE IF char = "o" /\ next = "w" THEN <<"ow">> \o wordPhonemes(word, i + 2)
           ELSE IF char \in Vowels THEN <<char>> \o wordPhonemes(word, i + 1)
           ELSE IF char \in Consonants THEN <<char>> \o wordPhonemes(word, i + 1)
           ELSE <<"default">> \o wordPhonemes(word, i + 1)

RECURSIVE allWords(_)
allWords(words) ==
  IF words = <<>> THEN <<>>
  ELSE wordPhonemes(Head(words), 1) \o <<"pause">> \o allWords(Tail(words))

textToPhonemes(text) == allWords(splitWhitespace(stripPunctuation(toLowerCase(text))))

visemeOf_PauseDefault(phoneme) ==
  IF phoneme \in PhonemeKeys THEN PHONEME_MAP[phoneme]
  ELSE PHONEME_MAP["default"]

\* PHONEME_MAP[phoneme] || PHONEME_MAP['default']
visemeOf(phoneme) ==
  IF phoneme = "pause" THEN ZeroViseme
  ELSE IF phoneme \in PhonemeKeys THEN PHONEME_MAP[phoneme]
  ELSE PHONEME_MAP["default"]

generateLipSyncData_OneBased(text, duration) ==
  LET phonemes == textToPhonemes(text)
  IN  [k \in 1..Len(phonemes) |->
         [num |-> k * duration, den |-> Len(phonemes),
          viseme |-> visemeOf(phonemes[k])]]

\* generateLipSyncData: frame index (0-based) sits at index * (duration / length),
\* kept as the fraction num / den
generateLipSyncData(text, duration) ==
  LET phonemes == textToPhonemes(text)
  IN  [k \in 1..Len(phonemes) |->
         [num |-> (k - 1) * duration, den |-> Len(phonemes),
          viseme |-> visemeOf(phonemes[k])]]

\* ======================================================= ChatBox.tsx, handleSend
Slots     == {1, 2}     \* audio elements that can be alive at the same time
Texts     == {<<"h", "i">>, <<"a", " ", "b">>}   \* replies of the chat service
Durations == {2, 4}     \* true audio durations, either side of the estimate
Presets   == {"neutral", "happy"}

\* expressions the avatar's expressionMap holds: the default model has all of
\* them, an uploaded one may lack some
ExpressionsOf(v) ==
  IF v = 1 THEN VisemeNames \cup EmotionNames
  ELSE (VisemeNames \ {"ee"}) \cup EmotionNames

\* EXPRESSION_PRESETS, in tenths
EXPRESSION_PRESETS ==
  [p \in Presets |->
     [e \in EmotionNames |->
        IF p = "happy" THEN (IF e = "happy" THEN 10 ELSE IF e = "relaxed" THEN 3 ELSE 0)
        ELSE 0]]

\* a slot without audio element.  cancelled and preSwap are history: the last
\* of the play/pause/ended handlers that ran was pause or ended; the index the
\* cursor had when the timeline was last replaced in this playback (or -1)
NoSession ==
  [live |-> FALSE, text |-> <<>>, cap |-> Null, lipSyncData |-> <<>>,
   lipSyncIndex |-> 0, startTime |-> 0, animationId |-> FALSE,
   paused |-> TRUE, ended |-> FALSE, duration |-> 0, position |-> 0,
   events |-> <<>>, cancelled |-> FALSE, preSwap |-> -1]

\* handleAnimationControl('viseme', name, value) of the closure over avatar cap
setViseme(m, cap, name, value) ==
  IF cap = Null \/ name \notin ExpressionsOf(cap) THEN m
  ELSE [m EXCEPT ![cap][name] = value]

\* the four onExpressionChange('viseme', ...) calls, in source order
emitViseme(m, cap, v) ==
  setViseme(setViseme(setViseme(setViseme(m, cap, "aa", v.aa), cap, "ih", v.ih),
                      cap, "ou", v.ou), cap, "ee", v.ee)

\* handleAnimationControl('expression', name, intensity 1.0)
setExpression(em, cap, preset) ==
  IF cap = Null THEN em
  ELSE [em EXCEPT ![cap] =
          [e \in EmotionNames |->
             IF e \in ExpressionsOf(cap) THEN EXPRESSION_PRESETS[preset][e] ELSE @[e]]]


\* variant: the loop stops one frame later, past the last frame
RECURSIVE advanceIndex_PastEnd(_, _, _)
advanceIndex_PastEnd(data, index, elapsed) ==
  IF index < Len(data)
     /\ (index + 2 > Len(data) \/ data[index + 2].num <= elapsed * data[index + 2].den)
    THEN advanceIndex_PastEnd(data, index + 1, elapsed)
    ELSE index

\* variant: the cursor is recomputed from the first frame on every tick
advanceIndex_Rescan(data, index, elapsed) ==
  LET ok == {k \in 0..(Len(data) - 1) :
               \A j \in 1..k : data[j + 1].num <= elapsed * data[j + 1].den}
  IN  IF data = <<>> THEN index ELSE CHOOSE k \in ok : \A o \in ok : k >= o

\* the while loop of updateLipSync: index is 0-based, frames are 1-based
RECURSIVE advanceIndex(_, _, _)
advanceIndex(data, index, elapsed) ==
  IF index < Len(data) - 1 /\ data[index + 2].num <= elapsed * data[index + 2].den
    THEN advanceIndex(data, index + 1, elapsed)
    ELSE index

\* updateLipSync(currentTime) of session record r: the record afterwards
updateLipSync(r, currentTime) ==
  LET elapsed == currentTime - r.startTime
      index   == advanceIndex(r.lipSyncData, r.lipSyncIndex, elapsed)
  IN  [r EXCEPT !.lipSyncIndex = index,
                !.animationId = (~r.paused /\ ~r.ended)]

\* the weights updateLipSync(currentTime) hands to onExpressionChange
updateLipSyncMouth(r, currentTime, m) ==
  LET index == advanceIndex(r.lipSyncData, r.lipSyncIndex, currentTime - r.startTime)
  IN  IF index < Len(r.lipSyncData)
        THEN emitViseme(m, r.cap, r.lipSyncData[index + 1].viseme)
        ELSE m

FreeSessions == {s \in Slots : ~sess[s].live
                   \/ (sess[s].ended /\ sess[s].events = <<>> /\ ~sess[s].animationId)}

\* handleSend up to its first await
SendStart ==
  /\ ~isLoading
  /\ isLoading' = TRUE
  /\ sendCap' = currentVrm
  /\ lastOp' = Op("SendStart", 0)
  /\ UNCHANGED <<libVars, now, sess, mouth, emotion, viewerVars>>

\* handleSend after the speech arrived (lines 112-186, then finally)
SendComplete(text, preset, anim, s) ==
  /\ isLoading
  /\ s \in FreeSessions
  /\ Len(loads) < MaxLoads
  /\ LET r == handleAnimation([loads |-> loads, error |-> error],
                              AnimUrl(anim, "fbx"), sendCap, mixer)
     IN  /\ emotion' = setExpression(emotion, sendCap, preset)
         /\ loads' = r.loads
         /\ error' = r.error
         /\ sess' = [sess EXCEPT ![s] =
              [NoSession EXCEPT
                 !.live = TRUE, !.text = text, !.cap = sendCap,
                 !.lipSyncData = generateLipSyncData(text, EstimateDuration),
                 !.paused = FALSE,              \* audio.play()
                 !.events = <<"play">>]]
         /\ lastOp' = Op("SendComplete", s)
  /\ isLoading' = FALSE
  /\ UNCHANGED <<libVars, now, sendCap, mouth, vrmUrl, vrmLoads, currentVrm, mixer,
                 currentAction, currentClip, actions>>

\* handleSend when a service call fails: catch, then finally
SendFail ==
  /\ isLoading
  /\ isLoading' = FALSE
  /\ lastOp' = Op("SendFail", 0)
  /\ UNCHANGED <<libVars, now, sendCap, sess, mouth, emotion, viewerVars>>

\* ------------------------------------------------------ the audio element
Playing(r) == r.live /\ ~r.paused /\ ~r.ended /\ r.duration # 0

\* the element has decoded its metadata: duration is known, the event is queued
MetadataReady(s, d) ==
  /\ sess[s].live /\ sess[s].duration = 0
  /\ Len(sess[s].events) < MaxQueue
  /\ sess' = [sess EXCEPT ![s].duration = d, ![s].events = Append(@, "loadedmetadata")]
  /\ lastOp' = Op("MetadataReady", s)
  /\ UNCHANGED <<libVars, now, isLoading, sendCap, mouth, emotion, viewerVars>>

\* the browser pauses the element (media key, interruption)
AudioPause(s) ==
  /\ sess[s].live /\ ~sess[s].paused /\ ~sess[s].ended
  /\ Len(sess[s].events) < MaxQueue
  /\ sess' = [sess EXCEPT ![s].paused = TRUE, ![s].events = Append(@, "pause")]
  /\ lastOp' = Op("AudioPause", s)
  /\ UNCHANGED <<libVars, now, isLoading, sendCap, mouth, emotion, viewerVars>>

\* the browser resumes the element
AudioResume(s) ==
  /\ sess[s].live /\ sess[s].paused /\ ~sess[s].ended
  /\ Len(sess[s].events) < MaxQueue
  /\ sess' = [sess EXCEPT ![s].paused = FALSE, ![s].events = Append(@, "play")]
  /\ lastOp' = Op("AudioResume", s)
  /\ UNCHANGED <<libVars, now, isLoading, sendCap, mouth, emotion, viewerVars>>

\* playback reaches the end of the media: paused and ended become true and
\* the element queues 'pause' followed by 'ended'
AudioEnd(s) ==
  /\ Playing(sess[s]) /\ sess[s].position = sess[s].duration
  /\ Len(sess[s].events) + 2 <= MaxQueue
  /\ sess' = [sess EXCEPT ![s].paused = TRUE, ![s].ended = TRUE,
                          ![s].events = @ \o <<"pause", "ended">>]
  /\ lastOp' = Op("AudioEnd", s)
  /\ UNCHANGED <<libVars, now, isLoading, sendCap, mouth, emotion, viewerVars>>

\* one second passes on every clock
AdvanceClock ==
  /\ now < MaxTime
  /\ now' = now + 1
  /\ sess' = [s \in Slots |->
               IF Playing(sess[s]) /\ sess[s].position < sess[s].duration
                 THEN [sess[s] EXCEPT !.position = @ + 1]
                 ELSE sess[s]]
  /\ lastOp' = Op("AdvanceClock", 0)
  /\ UNCHANGED <<libVars, isLoading, sendCap, mouth, emotion, viewerVars>>


\* variant: installing the rebuilt timeline rewinds the cursor
onLoadedMetadata_ResetsCursor(r) ==
  [r EXCEPT !.lipSyncData = generateLipSyncData(r.text, r.duration),
            !.lipSyncIndex = 0,
            !.preSwap = r.lipSyncIndex]

\* ------------------------------------------------- handlers of one session
\* 'loadedmetadata' (lines 158-161): the timeline is rebuilt in place
onLoadedMetadata(r) ==
  [r EXCEPT !.lipSyncData = generateLipSyncData(r.text, r.duration),
            !.preSwap = r.lipSyncIndex]

onPlay_KeepsCursor(r) ==
  [r EXCEPT !.startTime = now, !.cancelled = FALSE, !.preSwap = -1]

\* 'play' (lines 163-167), before its call of updateLipSync
onPlay(r) ==
  [r EXCEPT !.startTime = now, !.lipSyncIndex = 0,
            !.cancelled = FALSE, !.preSwap = -1]


\* variant: the handler leaves the requested animation frame pending
cancelAnimationFrame_Forgotten(r) == [r EXCEPT !.cancelled = TRUE]

\* cancelAnimationFrame(animationId)
cancelAnimationFrame(r) == [r EXCEPT !.animationId = FALSE, !.cancelled = TRUE]

\* the media event at the head of the session's queue is dispatched
Dispatch(s) ==
  /\ sess[s].live /\ sess[s].events # <<>>
  /\ LET ev == Head(sess[s].events)
         r  == [sess[s] EXCEPT !.events = Tail(@)]
     IN  /\ lastOp' = Op(ev, s)
         /\ CASE ev = "loadedmetadata" ->
                  /\ sess' = [sess EXCEPT ![s] = onLoadedMetadata(r)]
                  /\ UNCHANGED <<mouth, loads, error>>
              [] ev = "play" ->
                  /\ sess' = [sess EXCEPT ![s] = updateLipSync(onPlay(r), now)]
                  /\ mouth' = updateLipSyncMouth(onPlay(r), now, mouth)
                  /\ UNCHANGED <<loads, error>>
              [] ev = "pause" ->
                  /\ sess' = [sess EXCEPT ![s] = cancelAnimationFrame(r)]
                  /\ UNCHANGED <<mouth, loads, error>>
              [] ev = "ended" ->
                  /\ Len(loads) < MaxLoads
                  /\ sess' = [sess EXCEPT ![s] = cancelAnimationFrame(r)]
                  /\ mouth' = emitViseme(mouth, r.cap, ZeroViseme)
                  /\ LET h == handleAnimation([loads |-> loads, error |-> error],
                                              AnimUrl("idle", "fbx"), r.cap, mixer)
                     IN  loads' = h.loads /\ error' = h.error
  /\ UNCHANGED <<libVars, now, isLoading, sendCap, emotion, vrmUrl, vrmLoads, currentVrm,
                 mixer, currentAction, currentClip, actions>>

Tick_ResetsExpressions(s) ==
  /\ sess[s].live /\ sess[s].animationId
  /\ sess' = [sess EXCEPT ![s] = updateLipSync(@, now)]
  /\ mouth' = updateLipSyncMouth(sess[s], now, mouth)
  /\ emotion' = [v \in VrmIds |-> [e \in EmotionNames |-> 0]]
  /\ lastOp' = Op("Tick", s)
  /\ UNCHANGED <<libVars, now, isLoading, sendCap, viewerVars>>

\* the animation frame requested by updateLipSync fires
Tick(s) ==
  /\ sess[s].live /\ sess[s].animationId
  /\ sess' = [sess EXCEPT ![s] = updateLipSync(@, now)]
  /\ mouth' = updateLipSyncMouth(sess[s], now, mouth)
  /\ lastOp' = Op("Tick", s)
  /\ UNCHANGED <<libVars, now, isLoading, sendCap, emotion, viewerVars>>

\* ------------------------------------------------ calls of lib/lipSync.ts
\* the texts and durations generateLipSyncData is called with
TextChars     == {"a", "y", "e", "o", "w", "b", "h", "H", " ", "!"}
HiBob         == <<"h", "i", " ", "b", "o", "b">>
LibTexts      == UNION {[1..n -> TextChars] : n \in 0..MaxTextLen} \cup {HiBob}
LibDurations  == {0, 2, 7}

\* generateLipSyncData, line 99: const phonemes = textToPhonemes(text)
CallTextToPhonemes ==
  /\ libPc = "generateLipSyncData"
  /\ libRet' = [phonemes |-> textToPhonemes(libArgs.text)]
  /\ libPc' = "phonemes"
  /\ UNCHANGED <<libArgs, viewerVars, chatVars, lastOp>>

\* generateLipSyncData, lines 100-108: the frames it returns
ReturnLipSyncData ==
  /\ libPc = "phonemes"
  /\ libRet' = [phonemes |-> libRet.phonemes,
                data |-> generateLipSyncData(libArgs.text, libArgs.duration)]
  /\ libPc' = "returned"
  /\ UNCHANGED <<libArgs, viewerVars, chatVars, lastOp>>

\* ============================================ lib/loadMixamoAnimation.ts
\* three.js Quaternion, as <<x, y, z, w>>
Quat(x, y, z, w) == <<x, y, z, w>>
QIdentity == Quat(0, 0, 0, 1)
QI        == Quat(1, 0, 0, 0)
QJ        == Quat(0, 1, 0, 0)

\* Quaternion.multiplyQuaternions(a, b)
multiplyQuaternions(a, b) ==
  Quat(a[1] * b[4] + a[4] * b[1] + a[2] * b[3] - a[3] * b[2],
       a[2] * b[4] + a[4] * b[2] + a[3] * b[1] - a[1] * b[3],
       a[3] * b[4] + a[4] * b[3] + a[1] * b[2] - a[2] * b[1],
       a[4] * b[4] - a[1] * b[1] - a[2] * b[2] - a[3] * b[3])

\* Quaternion.invert(): the conjugate, the quaternion is taken to be of length 1
invert(q) == Quat(-q[1], -q[2], -q[3], q[4])

\* the node above the bones of the Mixamo rig
RootNode == "RootNode"

\* the table of ./mixamoVRMRigMap: Mixamo bone name -> VRM humanoid bone name
mixamoVRMRigMap ==
  [b \in {"mixamorigHips", "mixamorigSpine"} |->
     IF b = "mixamorigHips" THEN "hips" ELSE "spine"]

lookup_Total(mixamoRigName) ==
  IF mixamoRigName \in DOMAIN mixamoVRMRigMap THEN mixamoVRMRigMap[mixamoRigName]
  ELSE "hips"

\* mixamoVRMRigMap[mixamoRigName], undefined for a name the table does not hold
lookup(mixamoRigName) ==
  IF mixamoRigName \in DOMAIN mixamoVRMRigMap THEN mixamoVRMRigMap[mixamoRigName]
  ELSE "undefined"

\* the scene graphs an FBX file can hold: the usual chain under a root node,
\* a file whose hips bone is the root itself, one without a hips bone and one
\* without a spine bone
Shapes == {"chain", "hipsIsRoot", "noHips", "noSpine"}

\* Object3D.parent in a graph of the given shape ("null" at the root, "absent"
\* for a node the graph does not hold)
parentOf(shape, name) ==
  CASE name = RootNode ->
         IF shape = "hipsIsRoot" THEN "absent" ELSE "null"
    [] name = "mixamorigHips" ->
         IF shape = "noHips" THEN "absent"
         ELSE IF shape = "hipsIsRoot" THEN "null" ELSE RootNode
    [] name = "mixamorigSpine" ->
         IF shape = "noSpine" THEN "absent"
         ELSE IF shape = "noHips" THEN RootNode ELSE "mixamorigHips"
    [] name = "mixamorigHeadTop_End" ->
         IF shape = "noSpine" THEN "mixamorigHips" ELSE "mixamorigSpine"
    [] OTHER -> "absent"

\* asset.getObjectByName(name): the node, or undefined
getObjectByName(asset, name) ==
  IF parentOf(asset.shape, name) = "absent" THEN "undefined" ELSE name

\* Object3D.quaternion of a node of the unanimated asset
localQuaternion(asset, name) ==
  CASE name = RootNode -> asset.rootRotation
    [] name = "mixamorigHips" -> asset.hipsRotation
    [] name = "mixamorigSpine" -> QJ
    [] OTHER -> QIdentity

\* Object3D.getWorldQuaternion: the rotations of the node and of everything
\* above it, composed from the root down
RECURSIVE getWorldQuaternion(_, _)
getWorldQuaternion(asset, name) ==
  IF parentOf(asset.shape, name) = "null" THEN localQuaternion(asset, name)
  ELSE multiplyQuaternions(getWorldQuaternion(asset, parentOf(asset.shape, name)),
                           localQuaternion(asset, name))

\* vrm.humanoid.getNormalizedBoneNode(bone)?.name
normalizedNodeName(vrm, bone) ==
  IF bone \in vrm.bones THEN "Normalized_" \o bone ELSE "undefined"

hipsPositionScale_Inverted(vrmHipsHeight, motionHipsHeight) ==
  [num |-> motionHipsHeight, den |-> vrmHipsHeight]

\* hipsPositionScale = vrmHipsHeight / motionHipsHeight, kept as a fraction
hipsPositionScale(vrmHipsHeight, motionHipsHeight) ==
  [num |-> vrmHipsHeight, den |-> motionHipsHeight]

retargetRotation_Postmultiply(values, parentRestWorldRotation, restRotationInverse) ==
  [n \in 1..Len(values) |->
     LET i     == 4 * ((n - 1) \div 4)
         quatA == Quat(values[i + 1], values[i + 2], values[i + 3], values[i + 4])
     IN  multiplyQuaternions(multiplyQuaternions(quatA, parentRestWorldRotation),
                             restRotationInverse)[n - i]]

\* lines 55-59: every group of four values q of the track becomes
\* parentRestWorldRotation * q * restRotationInverse, written back in place
retargetRotation(values, parentRestWorldRotation, restRotationInverse) ==
  [n \in 1..Len(values) |->
     LET i     == 4 * ((n - 1) \div 4)
         quatA == Quat(values[i + 1], values[i + 2], values[i + 3], values[i + 4])
     IN  multiplyQuaternions(multiplyQuaternions(parentRestWorldRotation, quatA),
                             restRotationInverse)[n - i]]

axisQuaternion_OddIndex(values, metaVersion) ==
  [n \in 1..Len(values) |->
     IF metaVersion = "0" /\ (n - 1) % 2 = 1 THEN -values[n] ELSE values[n]]

\* line 66: track.values.map((v, i) => metaVersion === '0' && i % 2 === 0 ? -v : v)
axisQuaternion(values, metaVersion) ==
  [n \in 1..Len(values) |->
     IF metaVersion = "0" /\ (n - 1) % 2 = 0 THEN -values[n] ELSE values[n]]

axisScaleVector_HeightOnly(values, metaVersion, scale) ==
  [n \in 1..Len(values) |->
     [num |-> (IF metaVersion = "0" /\ (n - 1) % 3 # 1 THEN -values[n] ELSE values[n])
                * (IF (n - 1) % 3 = 1 THEN scale.num ELSE scale.den),
      den |-> scale.den]]

\* line 72: track.values.map((v, i) =>
\*   (metaVersion === '0' && i % 3 !== 1 ? -v : v) * hipsPositionScale)
axisScaleVector(values, metaVersion, scale) ==
  [n \in 1..Len(values) |->
     [num |-> (IF metaVersion = "0" /\ (n - 1) % 3 # 1 THEN -values[n] ELSE values[n])
                * scale.num,
      den |-> scale.den]]

\* lines 36-76, the callback of clip.tracks.forEach for one track: whether it
\* throws, the values it leaves in the source track, and the tracks it pushes
retargetTrack(asset, vrm, scale, track) ==
  LET mixamoRigName == track.name[1]
      vrmBoneName   == lookup(mixamoRigName)
      vrmNodeName   == normalizedNodeName(vrm, vrmBoneName)
      mixamoRigNode == getObjectByName(asset, mixamoRigName)
      propertyName  == track.name[2]
      skip          == [thrown |-> FALSE, values |-> track.values, push |-> <<>>]
  IN  IF vrmBoneName = "undefined" THEN skip
      ELSE IF vrmNodeName = "undefined" \/ mixamoRigNode = "undefined" THEN skip
      ELSE IF parentOf(asset.shape, mixamoRigNode) = "null"
        THEN [thrown |-> TRUE, values |-> track.values, push |-> <<>>]
      ELSE LET restRotationInverse == invert(getWorldQuaternion(asset, mixamoRigNode))
               parentRestWorldRotation ==
                 getWorldQuaternion(asset, parentOf(asset.shape, mixamoRigNode))
               rotated == retargetRotation(track.values, parentRestWorldRotation,
                                           restRotationInverse)
           IN  CASE track.kind = "quaternion" ->
                      [thrown |-> FALSE, values |-> rotated,
                       push |-> <<[name |-> <<vrmNodeName, propertyName>>,
                                   kind |-> "quaternion", times |-> track.times,
                                   values |-> axisQuaternion(rotated, vrm.metaVersion)]>>]
                 [] track.kind = "vector" ->
                      [thrown |-> FALSE, values |-> track.values,
                       push |-> <<[name |-> <<vrmNodeName, propertyName>>,
                                   kind |-> "vector", times |-> track.times,
                                   values |-> axisScaleVector(track.values,
                                                              vrm.metaVersion, scale)]>>]
                 [] OTHER -> skip

\* ------------------------------------------ calls of loadMixamoAnimation
QK      == Quat(0, 0, 1, 0)
QAny    == Quat(1, 2, 3, 4)

\* the tracks FBXLoader can put in the clip 'mixamo.com': name split at the
\* dot, class of the track, times and the flat array of values
Track(bone, property, kind, times, values) ==
  [name |-> <<bone, property>>, kind |-> kind, times |-> times, values |-> values]

TrackCatalogue ==
  { Track("mixamorigHips", "position", "vector", <<0, 1>>, <<1, 2, 3, -2, 0, 5>>),
    Track("mixamorigHips", "position", "vector", <<0>>, <<0, 4, 0>>),
    Track("mixamorigHips", "quaternion", "quaternion", <<0, 1>>, QI \o QAny),
    Track("mixamorigHips", "quaternion", "quaternion", <<0>>, QJ),
    Track("mixamorigSpine", "quaternion", "quaternion", <<0, 1>>, QK \o QAny),
    Track("mixamorigSpine", "quaternion", "quaternion", <<0>>, QI),
    Track("mixamorigHeadTop_End", "quaternion", "quaternion", <<0>>, QJ),
    Track("mixamorigSpine", "morphTargetInfluences", "number", <<0>>, <<1>>) }

Clips         == UNION {[1..n -> TrackCatalogue] : n \in 1..MaxTracks}
SourceHeights == {1, 2}      \* asset.getObjectByName('mixamorigHips').position.y
Factors       == {1, 2}      \* the hips height of the file of a second call,
                             \* as a multiple of that of the first

\* what FBXLoader parses out of the file at a url
Files ==
  [shape : Shapes, rootRotation : {QIdentity, QI}, hipsRotation : {QI, QJ},
   hipsY : SourceHeights, tracks : Clips]

\* the avatars: meta version, the humanoid bones that have a node, and the
\* world height of the hips node
Vrms ==
  [metaVersion : {"0", "1"},
   bones : {{"hips", "spine"}, {"hips"}, {"spine"}},
   hipsHeight : {3}]

\* the asset of the call under way
Asset == libArgs.asset[1]

LoadAsset_Cached ==
  /\ libPc = "loadMixamoAnimation"
  /\ libArgs' = [libArgs EXCEPT !.asset = IF @ = <<>> THEN <<libArgs.file>> ELSE @]
  /\ libRet' = [libRet EXCEPT !.tracks = <<>>, !.from = <<>>, !.scale = <<>>, !.i = 1]
  /\ libPc' = "hips"
  /\ UNCHANGED <<viewerVars, chatVars, lastOp>>

\* lines 17-27: const asset = await loader.loadAsync(url), a new object graph
\* parsed from the file on every call
LoadAsset ==
  /\ libPc = "loadMixamoAnimation"
  /\ libArgs' = [libArgs EXCEPT !.asset = <<libArgs.file>>]
  /\ libRet' = [libRet EXCEPT !.tracks = <<>>, !.from = <<>>, !.scale = <<>>, !.i = 1]
  /\ libPc' = "hips"
  /\ UNCHANGED <<viewerVars, chatVars, lastOp>>

\* lines 30-33: the two non-null assertions, then hipsPositionScale
ComputeHipsScale ==
  /\ libPc = "hips"
  /\ IF \/ getObjectByName(Asset, "mixamorigHips") = "undefined"
        \/ normalizedNodeName(libArgs.vrm, "hips") = "undefined"
       THEN /\ libPc' = "thrown"
            /\ libRet' = [libRet EXCEPT !.thrownAt = <<0>>]
       ELSE /\ libPc' = "forEach"
            /\ libRet' = [libRet EXCEPT !.scale =
                            <<hipsPositionScale(libArgs.vrm.hipsHeight, Asset.hipsY)>>]
  /\ UNCHANGED <<libArgs, viewerVars, chatVars, lastOp>>

\* lines 35-77: one call of the forEach callback
ForEachTrack ==
  /\ libPc = "forEach"
  /\ libRet.i <= Len(Asset.tracks)
  /\ LET i == libRet.i
         r == retargetTrack(Asset, libArgs.vrm, libRet.scale[1], Asset.tracks[i])
     IN  /\ libArgs' = [libArgs EXCEPT !.asset[1].tracks[i].values = r.values]
         /\ IF r.thrown
              THEN /\ libPc' = "thrown"
                   /\ libRet' = [libRet EXCEPT !.thrownAt = <<i>>]
              ELSE /\ libPc' = "forEach"
                   /\ libRet' = [libRet EXCEPT
                                   !.i = i + 1,
                                   !.tracks = @ \o r.push,
                                   !.from = @ \o [k \in 1..Len(r.push) |-> i]]
  /\ UNCHANGED <<viewerVars, chatVars, lastOp>>

\* line 79: return new THREE.AnimationClip('vrmAnimation', clip.duration, tracks)
ReturnClip ==
  /\ libPc = "forEach"
  /\ libRet.i > Len(Asset.tracks)
  /\ libPc' = "returned"
  /\ UNCHANGED <<libArgs, libRet, viewerVars, chatVars, lastOp>>

\* a second call, for the same avatar and a file that is the same but for the
\* height of its hips, factor times that of the first
CallAgain(factor) ==
  /\ libPc = "returned"
  /\ libRet.call = 1
  /\ libArgs' = [libArgs EXCEPT !.file.hipsY = factor * @]
  /\ libRet' = [libRet EXCEPT !.call = 2, !.factor = factor,
                              !.first = <<[tracks |-> libRet.tracks,
                                           scale |-> libRet.scale[1]]>>]
  /\ libPc' = "loadMixamoAnimation"
  /\ UNCHANGED <<viewerVars, chatVars, lastOp>>

\* ----------------------------------------------------------- specifications
vars == <<viewerVars, chatVars, libVars, lastOp>>

InitApp ==
  /\ vrmUrl = 1
  /\ vrmLoads = {1}
  /\ currentVrm = Null
  /\ mixer = Null
  /\ currentAction = Null
  /\ currentClip = ""
  /\ actions = [id \in ActionIds |-> NoAction]
  /\ loads = <<>>
  /\ error = "none"
  /\ now = 0
  /\ isLoading = FALSE
  /\ sendCap = Null
  /\ sess = [s \in Slots |-> NoSession]
  /\ mouth = [v \in VrmIds |-> ZeroViseme]
  /\ emotion = [v \in VrmIds |-> [e \in EmotionNames |-> 0]]
  /\ lastOp = Op("Init", 0)

Init ==
  /\ InitApp
  /\ libPc = "idle"
  /\ libArgs = <<>>
  /\ libRet = <<>>

\* the viewer on its own: avatar loads, animation requests, render frames
NextViewer ==
  \/ SelectAvatar
  \/ \E v \in VrmIds : AvatarLoaded(v)
  \/ \E v \in VrmIds : AvatarLoadFail(v)
  \/ \E n \in ClipNames, x \in {"fbx", "glb"} : PresetAnimation(n, x)
  \/ \E n \in ClipNames : DropAnimation(n)
  \/ \E i \in 1..MaxLoads : LoadResolve(i)
  \/ \E i \in 1..MaxLoads, o \in LoadOutcomes : LoadFail(i, o)
  \/ \E d \in 1..MaxDelta : MixerUpdate(d)

SpecViewer == Init /\ [][NextViewer]_vars

\* the default avatar with requests that overlap: a preset is chosen while
\* earlier loads are in flight, and the loads resume in any order
NextOverlap ==
  \/ AvatarLoaded(1)
  \/ \E n \in ClipNames, x \in {"fbx", "glb"} : PresetAnimation(n, x)
  \/ \E n \in ClipNames : PresetWhileLoading(n)
  \/ \E i \in 1..MaxInFlight : LoadResolve(i)
  \/ \E i \in 1..MaxInFlight, o \in LoadOutcomes : LoadFail(i, o)
  \/ \E d \in 1..MaxDelta : MixerUpdate(d)

SpecOverlap == Init /\ [][NextOverlap]_vars

\* one speech session at a time on the default avatar: the animation loads
\* resolve in issue order and every render frame completes the running fades
LipSlots == {1}

NextLip ==
  \/ AvatarLoaded(1)
  \/ LoadResolve(1)
  \/ MixerUpdate(FadeDuration + 1)
  \/ SendStart
  \/ \E t \in Texts, s \in LipSlots : SendComplete(t, "happy", "wave", s)
  \/ SendFail
  \/ \E s \in LipSlots, d \in Durations : MetadataReady(s, d)
  \/ \E s \in LipSlots : AudioPause(s)
  \/ \E s \in LipSlots : AudioResume(s)
  \/ \E s \in LipSlots : AudioEnd(s)
  \/ AdvanceClock
  \/ \E s \in LipSlots : Dispatch(s)
  \/ \E s \in LipSlots : Tick(s)

SpecLip == Init /\ [][NextLip]_vars

\* two messages sent one after the other on the default avatar: the first
\* reply plays on audio element 1 to its end, the second starts on element 2
\* and is followed until its metadata would arrive; nothing pauses the playback
NextTwoMessages ==
  \/ AvatarLoaded(1)
  \/ LoadResolve(1)
  \/ MixerUpdate(FadeDuration + 1)
  \/ SendStart
  \/ (~sess[1].live /\ SendComplete(<<"h", "i">>, "happy", "wave", 1))
  \/ (sess[1].live /\ ~sess[2].live /\ SendComplete(<<"h", "i">>, "happy", "wave", 2))
  \/ MetadataReady(1, EstimateDuration - 1)
  \/ AudioEnd(1)
  \/ AdvanceClock
  \/ \E s \in Slots : Dispatch(s)
  \/ \E s \in Slots : Tick(s)

SpecTwoMessages == Init /\ [][NextTwoMessages]_vars

\* one call generateLipSyncData(text, duration)
InitText ==
  /\ InitApp
  /\ libPc = "generateLipSyncData"
  /\ libArgs \in [text : LibTexts, duration : LibDurations]
  /\ libRet = <<>>

NextText == CallTextToPhonemes \/ ReturnLipSyncData

SpecText == InitText /\ [][NextText]_vars

\* up to two calls loadMixamoAnimation(url, vrm)
InitRetarget ==
  /\ InitApp
  /\ libPc = "loadMixamoAnimation"
  /\ libArgs \in [file : Files, vrm : Vrms, asset : {<<>>}]
  /\ libRet = [call |-> 1, factor |-> 1, i |-> 1, scale |-> <<>>, tracks |-> <<>>,
               from |-> <<>>, thrownAt |-> <<>>, first |-> <<>>]

NextRetarget ==
  \/ LoadAsset
  \/ ComputeHipsScale
  \/ ForEachTrack
  \/ ReturnClip
  \/ \E factor \in Factors : CallAgain(factor)

SpecRetarget == InitRetarget /\ [][NextRetarget]_vars

\* ==================================================================== claims
LiveActions == {id \in ActionIds : actions[id] # NoAction /\ actions[id].mixer = mixer}

\* a handleAnimation call resumed with a clip and reached the crossfade
\* controller in this step
RequestApplied == lastOp' = <<"LoadResolve", 0>>

\* C1: in Playing(current), a request for the animation current already plays
\* is a no-op: the current-action reference and every action's weight and
\* fade stay as they were.
C1_SameActionNoop ==
  [][(/\ RequestApplied
      /\ currentAction # Null
      /\ currentAction' # Null
      /\ currentClip' = currentClip)
     => (currentAction' = currentAction /\ actions' = actions)]_vars

\* C2: a crossfade lasts FadeDuration (0.5 s) whatever the clips; while it runs
\* the weights follow the linear ramp, and once it has elapsed the current
\* action is enabled at full weight and every other action of the mixer is
\* disabled at weight zero.
C2_CrossfadeCompletes ==
  \A id \in LiveActions :
    LET a == actions[id]
    IN  /\ a.active
        /\ a.fade # NoFade =>
              /\ a.fade[3] <= FadeDuration
              /\ a.enabled
              /\ a.fade[2] = (IF id = currentAction THEN Full ELSE 0)
              /\ (a.fade[3] > 0 => a.effW = FadeValue(a.fade, a.fade[3]))
        /\ a.fade = NoFade =>
              IF id = currentAction
                THEN a.enabled /\ a.effW = Full
                ELSE ~a.enabled /\ a.effW = 0

C2_Witness ==
  /\ currentAction \in LiveActions
  /\ actions[currentAction].fade = NoFade
  /\ actions[currentAction].effW = Full
  /\ \E old \in LiveActions :
       /\ old # currentAction
       /\ ~actions[old].enabled /\ actions[old].effW = 0

\* C3: a request that arrives while the current action B is still fading in
\* starts the new crossfade in the same step: B fades out from now, the new
\* action C fades in from now and is scheduled, C becomes the current action,
\* and the fade that was interrupted is left to itself.
C3_Supersession ==
  [][(/\ RequestApplied
      /\ currentAction # Null
      /\ actions[currentAction].fade # NoFade)
     => (/\ currentAction' \notin {Null, currentAction}
         /\ actions'[currentAction].fade = <<Full, 0, 0>>
         /\ actions'[currentAction'].fade = <<0, Full, 0>>
         /\ actions'[currentAction'].active
         /\ actions'[currentAction'].enabled
         /\ \A id \in ActionIds \ {currentAction, currentAction'} :
               actions'[id] = actions[id])]_vars

C3_Witness ==
  /\ lastOp = <<"LoadResolve", 0>>
  /\ currentAction \in LiveActions
  /\ actions[currentAction].fade = <<0, Full, 0>>
  /\ \E a, b \in LiveActions :
       /\ a # b /\ a # currentAction /\ b # currentAction
       /\ actions[b].fade = <<Full, 0, 0>>
       /\ actions[a].fade # NoFade /\ actions[a].fade[3] > 0
       /\ actions[a].fade[3] < FadeDuration

\* C4: a request in state Empty schedules the new action at full weight with
\* no fade and makes it the current action.
C4_StartFromEmpty ==
  [][(RequestApplied /\ currentAction = Null)
     => (/\ currentAction' # Null
         /\ actions'[currentAction'].fade = NoFade
         /\ actions'[currentAction'].effW = Full
         /\ actions'[currentAction'].enabled
         /\ actions'[currentAction'].active
         /\ \A id \in ActionIds \ {currentAction'} : actions'[id] = actions[id])]_vars

C4_Witness ==
  /\ lastOp = <<"LoadResolve", 0>>
  /\ currentAction \in LiveActions
  /\ LiveActions = {currentAction}
  /\ actions[currentAction].fade = NoFade
  /\ actions[currentAction].effW = Full

\* C5: a request whose load fails (unsupported extension, loader rejection,
\* no animation in the file) sets the error state and leaves the current
\* action, the mixer and every action object as they were.
C5_FailedLoadUntouched ==
  [][(lastOp' = <<"catch", 0>>)
     => (/\ error' = "animation"
         /\ UNCHANGED <<currentAction, currentClip, actions, mixer, currentVrm>>)]_vars

C5_Witness ==
  /\ lastOp = <<"catch", 0>>
  /\ error = "animation"
  /\ currentAction \in LiveActions
  /\ \E id \in LiveActions : actions[id].fade # NoFade /\ actions[id].fade[3] > 0

\* -------------------------------------------------------- lip-sync scheduler
\* updateLipSync ran for session s in the step that led to this state
Ticked(s) == lastOp = <<"Tick", s>> \/ lastOp = <<"play", s>>

\* seconds since playback start, as updateLipSync computes them
Elapsed(s) == now - sess[s].startTime

\* frame f has been reached / not been reached at the elapsed time e
Reached(f, e) == f.num <= e * f.den

\* C6: within one playback the active-frame index never decreases from one
\* step to the next, whether the step is a tick, the replacement of the
\* timeline or anything else but a new play event.
C6_CursorMonotonic ==
  [][\A s \in Slots :
       (/\ sess[s].live /\ sess'[s].live
        /\ lastOp' # <<"play", s>>
        /\ lastOp' # <<"SendComplete", s>>)
       => sess'[s].lipSyncIndex >= sess[s].lipSyncIndex]_vars

C6_Witness ==
  \E s \in Slots :
    /\ lastOp = <<"Tick", s>>
    /\ sess[s].preSwap >= 1
    /\ sess[s].lipSyncIndex > sess[s].preSwap

\* C7: after every tick the cursor is on the last frame of the current
\* timeline whose timestamp is <= elapsed: that frame is reached, and it is
\* the final frame or the next frame is not reached yet.
C7_TickSelectsReached ==
  \A s \in Slots :
    Ticked(s) =>
      LET r == sess[s]
          i == r.lipSyncIndex
      IN  /\ i < Len(r.lipSyncData)
          /\ Reached(r.lipSyncData[i + 1], Elapsed(s))
          /\ (i = Len(r.lipSyncData) - 1
                \/ ~Reached(r.lipSyncData[i + 2], Elapsed(s)))

\* C8: when the 'ended' handler and when the 'pause' handler has run, the four
\* mouth-shape weights of the avatar the session drives are zero.
C8_MouthZeroOnStop ==
  \A s \in Slots :
    (lastOp \in {<<"ended", s>>, <<"pause", s>>} /\ sess[s].cap # Null)
      => mouth[sess[s].cap] = ZeroViseme

\* C9: from the moment the 'ended' or 'pause' handler of a session has run
\* until its next play event, no animation frame of the session is pending,
\* no tick of it runs, and its cursor, its start time and (the 'ended'
\* handler's reset apart) the mouth-shape weights do not change.
C9_NoMutationAfterCancel ==
  [][\A s \in Slots :
       (/\ sess[s].live /\ sess[s].cancelled
        /\ lastOp' # <<"play", s>>
        /\ lastOp' # <<"SendComplete", s>>)
       => (/\ lastOp' # <<"Tick", s>>
           /\ ~sess[s].animationId /\ ~sess'[s].animationId
           /\ sess'[s].lipSyncIndex = sess[s].lipSyncIndex
           /\ sess'[s].startTime = sess[s].startTime
           /\ (lastOp' # <<"ended", s>> => mouth' = mouth))]_vars

C9_Witness ==
  \E s \in Slots :
    /\ lastOp = <<"AdvanceClock", 0>>
    /\ sess[s].live /\ sess[s].cancelled /\ ~sess[s].ended
    /\ sess[s].lipSyncIndex >= 1
    /\ now > sess[s].startTime + 1

\* C10: a timeline installed after the ticks of a playback have begun causes
\* no backward jump: every tick that follows the replacement emits an index
\* that is not lower than the one emitted before it.
C10_NoBackwardJump ==
  \A s \in Slots :
    (lastOp = <<"Tick", s>> /\ sess[s].preSwap >= 0)
      => sess[s].lipSyncIndex >= sess[s].preSwap

C10_Witness ==
  \E s \in Slots :
    /\ lastOp = <<"Tick", s>>
    /\ sess[s].preSwap >= 1
    /\ sess[s].duration > EstimateDuration
    /\ sess[s].lipSyncIndex = sess[s].preSwap
    /\ ~Reached(sess[s].lipSyncData[sess[s].lipSyncIndex + 1], Elapsed(s))

\* a text with nothing to pronounce: empty, or only whitespace and punctuation
BlankText(text) == \A i \in 1..Len(text) : ~IsWordChar(text[i])

\* C11: for an empty text, or one of only whitespace or only punctuation, the
\* phoneme sequence has no symbol and generateLipSyncData returns no frame.
C11_BlankTextNoFrames ==
  (libPc = "returned" /\ BlankText(libArgs.text))
    => (Len(libRet.phonemes) = 0 /\ Len(libRet.data) = 0)

\* C12: the timeline has one frame per phoneme, in the phonemes' order; frame
\* i (0-based) sits at i * (duration / phonemeCount), the timestamps never
\* decrease and the first one is 0.
C12_OneFramePerPhoneme ==
  libPc = "returned" =>
    LET phonemes == libRet.phonemes
        data     == libRet.data
    IN  /\ Len(data) = Len(phonemes)
        /\ \A k \in 1..Len(data) :
             /\ data[k].viseme = visemeOf(phonemes[k])
             /\ data[k].den > 0
             /\ data[k].num * Len(phonemes) = (k - 1) * libArgs.duration * data[k].den
        /\ \A k \in 1..(Len(data) - 1) :
             data[k].num * data[k + 1].den <= data[k + 1].num * data[k].den
        /\ (Len(data) >= 1 => data[1].num = 0)

C12_Witness ==
  /\ libPc = "returned"
  /\ libArgs.duration = 7
  /\ Len(libRet.phonemes) = 3
  /\ libRet.phonemes[1] = "ow" /\ libRet.phonemes[2] = "default"
  /\ libRet.data[3].num = 14 /\ libRet.data[3].den = 3

\* the call has an asset and is past its hips: the loop, or its end
InLoop == libPc \in {"forEach", "returned", "thrown"} /\ libRet.scale # <<>>

\* the nodes of the avatar the table leads to
MappedNodes ==
  {normalizedNodeName(libArgs.vrm, mixamoVRMRigMap[b]) : b \in DOMAIN mixamoVRMRigMap}

\* C13: every track of the retargeted clip is addressed to a node of a bone
\* the table maps some source bone to; a source track whose bone the table
\* does not hold produces no output track and no error.
C13_OutputSound ==
  InLoop =>
    /\ \A n \in 1..Len(libRet.tracks) :
         /\ libRet.tracks[n].name[1] \in MappedNodes \ {"undefined"}
         /\ Asset.tracks[libRet.from[n]].name[1] \in DOMAIN mixamoVRMRigMap
         /\ libRet.tracks[n].name[1] =
              normalizedNodeName(libArgs.vrm,
                                 mixamoVRMRigMap[Asset.tracks[libRet.from[n]].name[1]])
    /\ \A n \in 1..Len(libRet.thrownAt) :
         Asset.tracks[libRet.thrownAt[n]].name[1] \in DOMAIN mixamoVRMRigMap

C13_Witness ==
  /\ libPc = "returned"
  /\ Len(Asset.tracks) = 2
  /\ Asset.tracks[1].name[1] = "mixamorigHeadTop_End"
  /\ Asset.tracks[2].name[1] = "mixamorigSpine"
  /\ libRet.from = <<2>>
  /\ libRet.tracks[1].name = <<"Normalized_spine", "quaternion">>

\* the rest pose lacks something the retarget reads: a hips bone in the asset
\* or in the avatar, or the parent of a mapped bone that a track animates
MissingRestData ==
  \/ getObjectByName(Asset, "mixamorigHips") = "undefined"
  \/ normalizedNodeName(libArgs.vrm, "hips") = "undefined"
  \/ \E n \in 1..Len(Asset.tracks) :
       /\ Asset.tracks[n].name[1] \in DOMAIN mixamoVRMRigMap
       /\ parentOf(Asset.shape, Asset.tracks[n].name[1]) = "null"

\* C14: when the asset or the avatar has no hips bone, or a mapped source bone
\* has no parent node, loadMixamoAnimation does not throw.
C14_MissingDataSkipped ==
  (libArgs.asset # <<>> /\ MissingRestData) => libPc # "thrown"

C16_InputsUnmodified ==
  libArgs.asset # <<>> =>
    \A n \in 1..Len(Asset.tracks) :
      /\ Asset.tracks[n].times = libArgs.file.tracks[n].times
      /\ Asset.tracks[n].values = libArgs.file.tracks[n].values

\* the magnitude of a number
Magnitude(x) == IF x < 0 THEN -x ELSE x

\* the second call has returned: its position values next to those the first
\* call returned for the same track and index
SecondReturned == libPc = "returned" /\ libRet.call = 2

PositionPairs ==
  UNION {{<<libRet.first[1].tracks[n].values[m], libRet.tracks[n].values[m]>> :
            m \in 1..Len(libRet.tracks[n].values)} :
         n \in {n \in 1..Len(libRet.tracks) : libRet.tracks[n].kind = "vector"}}

\* C17 as stated: with the avatar and the keyframes fixed, multiplying the hips
\* height of the source asset by k multiplies the magnitude of every
\* retargeted position value by k.
C17_ScalesWithSourceHeight ==
  SecondReturned =>
    \A pair \in PositionPairs :
      Magnitude(pair[2].num) * pair[1].den
        = libRet.factor * Magnitude(pair[1].num) * pair[2].den

\* C17, amended: with the avatar and the keyframes fixed, multiplying the hips
\* height of the source asset by k divides the magnitude of every retargeted
\* position value by k.
C17_ScalesAgainstSourceHeight ==
  SecondReturned =>
    \A pair \in PositionPairs :
      libRet.factor * Magnitude(pair[2].num) * pair[1].den
        = Magnitude(pair[1].num) * pair[2].den

C17_Witness ==
  /\ SecondReturned /\ libRet.factor = 2
  /\ \E pair \in PositionPairs : pair[1].num = 15 /\ pair[1].den = 2
                                  /\ pair[2].num = 15 /\ pair[2].den = 4

\* the g-th quaternion of a flat array of values
QuatAt(values, g) ==
  Quat(values[4 * g - 3], values[4 * g - 2], values[4 * g - 1], values[4 * g])

\* the rotation tracks pushed so far, as indices into the output
RotationOutputs ==
  {n \in 1..Len(libRet.tracks) : libRet.tracks[n].kind = "quaternion"}

\* C18: for every keyframe q of a mapped rotation track the output before the
\* axis correction is P * q * R^-1 in that order, P the world rotation of the
\* parent of the source bone and R that of the bone, both of the unanimated
\* asset; a keyframe equal to R gives P.
C18_RotationFormula ==
  InLoop =>
    \A n \in RotationOutputs :
      LET i      == libRet.from[n]
          bone   == libArgs.file.tracks[i].name[1]
          P      == getWorldQuaternion(libArgs.file, parentOf(libArgs.file.shape, bone))
          R      == getWorldQuaternion(libArgs.file, bone)
          before == libArgs.file.tracks[i].values
          after  == Asset.tracks[i].values
      IN  /\ Len(after) = Len(before)
          /\ \A g \in 1..(Len(before) \div 4) :
               /\ QuatAt(after, g)
                    = multiplyQuaternions(P, multiplyQuaternions(QuatAt(before, g), invert(R)))
               /\ QuatAt(before, g) = R => QuatAt(after, g) = P
          /\ libArgs.vrm.metaVersion # "0" => libRet.tracks[n].values = after

C18_Witness ==
  /\ libPc = "returned"
  /\ libArgs.vrm.metaVersion = "1"
  /\ libArgs.file.shape = "chain"
  /\ libArgs.file.tracks[1].name[1] = "mixamorigSpine"
  /\ Len(libArgs.file.tracks[1].values) = 8
  /\ QuatAt(libArgs.file.tracks[1].values, 1) = getWorldQuaternion(libArgs.file, "mixamorigSpine")
  /\ getWorldQuaternion(libArgs.file, "mixamorigHips") = QI
  /\ Len(libRet.from) >= 1 /\ libRet.from[1] = 1
  /\ QuatAt(libRet.tracks[1].values, 1) = QI
  /\ QuatAt(libRet.tracks[1].values, 2) = Quat(3, 4, 1, 2)

\* the sign of a number
Sign(x) == IF x < 0 THEN -1 ELSE IF x > 0 THEN 1 ELSE 0

\* the position tracks pushed so far, as indices into the output
PositionOutputs ==
  {n \in 1..Len(libRet.tracks) : libRet.tracks[n].kind = "vector"}

\* the avatar is of the generation whose axes need the correction
LegacyAxis == libArgs.vrm.metaVersion = "0"

\* C19: for a LegacyAxis avatar every output quaternion has x and z negated
\* and y and w unchanged, every output position has x and z negated and y
\* not; for a NormalizedAxis avatar no component is negated.
C19_AxisCorrection ==
  InLoop =>
    /\ \A n \in RotationOutputs :
         LET before == Asset.tracks[libRet.from[n]].values
             after  == libRet.tracks[n].values
         IN  \A g \in 1..(Len(before) \div 4) :
               QuatAt(after, g) =
                 IF LegacyAxis
                   THEN Quat(-QuatAt(before, g)[1], QuatAt(before, g)[2],
                             -QuatAt(before, g)[3], QuatAt(before, g)[4])
                   ELSE QuatAt(before, g)
    /\ \A n \in PositionOutputs :
         LET before == libArgs.file.tracks[libRet.from[n]].values
             after  == libRet.tracks[n].values
         IN  \A g \in 1..(Len(before) \div 3) : \A c \in 1..3 :
               Sign(after[3 * (g - 1) + c].num) * Sign(after[3 * (g - 1) + c].den) =
                 IF LegacyAxis /\ c \in {1, 3}
                   THEN -Sign(before[3 * (g - 1) + c])
                   ELSE Sign(before[3 * (g - 1) + c])

C19_Witness ==
  /\ libPc = "returned"
  /\ LegacyAxis
  /\ Len(libRet.tracks) = 2
  /\ libRet.tracks[1].kind = "vector"
  /\ libArgs.file.tracks[1].values = <<1, 2, 3, -2, 0, 5>>
  /\ libRet.tracks[1].values[1].num < 0 /\ libRet.tracks[1].values[2].num > 0
  /\ libRet.tracks[1].values[4].num > 0 /\ libRet.tracks[1].values[6].num < 0
  /\ libRet.tracks[2].kind = "quaternion"
  /\ Len(libRet.tracks[2].values) = 8
  /\ LET q == QuatAt(Asset.tracks[2].values, 2)
     IN  /\ \A c \in 1..4 : q[c] # 0
         /\ QuatAt(libRet.tracks[2].values, 2) = Quat(-q[1], q[2], -q[3], q[4])

\* C20: one scalar HipsScale, the world height of the avatar's hips over the
\* rest height of the asset's hips, holds for the whole call; every component
\* of every output position is the axis-corrected source component times it,
\* and the values of rotation tracks are not scaled.
C20_UniformHipsScale ==
  InLoop =>
    /\ libRet.scale[1].num = libArgs.vrm.hipsHeight
    /\ libRet.scale[1].den = Asset.hipsY
    /\ \A n \in PositionOutputs :
         LET before == libArgs.file.tracks[libRet.from[n]].values
             after  == libRet.tracks[n].values
         IN  /\ Len(after) = Len(before)
             /\ \A g \in 1..(Len(before) \div 3) : \A c \in 1..3 :
                  LET m         == 3 * (g - 1) + c
                      corrected == IF LegacyAxis /\ c \in {1, 3} THEN -before[m]
                                   ELSE before[m]
                  IN  /\ after[m].den # 0
                      /\ after[m].num * Asset.hipsY
                           = corrected * libArgs.vrm.hipsHeight * after[m].den
    /\ \A n \in RotationOutputs :
         \A m \in 1..Len(libRet.tracks[n].values) :
           Magnitude(libRet.tracks[n].values[m])
             = Magnitude(Asset.tracks[libRet.from[n]].values[m])

C20_Witness ==
  /\ libPc = "returned"
  /\ Asset.hipsY = 2
  /\ Len(libRet.tracks) = 2
  /\ libRet.tracks[1].kind = "quaternion"
  /\ libRet.tracks[2].kind = "vector"
  /\ libRet.tracks[2].values[2] = [num |-> 6, den |-> 2]
  /\ libRet.tracks[2].values[6] = [num |-> 15, den |-> 2]

\* the words of the text of the call: lower case, punctuation stripped, split
WordsOfCall == splitWhitespace(stripPunctuation(toLowerCase(libArgs.text)))

\* the phonemes cut after every 'pause', the pauses left out
RECURSIVE CutAtPause(_, _)
CutAtPause(phonemes, piece) ==
  IF phonemes = <<>> THEN IF piece = <<>> THEN <<>> ELSE <<piece>>
  ELSE IF Head(phonemes) = "pause" THEN <<piece>> \o CutAtPause(Tail(phonemes), <<>>)
  ELSE CutAtPause(Tail(phonemes), Append(piece, Head(phonemes)))

\* the two-character symbols and the characters each stands for
Digraphs == {"ee", "oo", "ay", "ow"}
Width(symbol) == IF symbol \in Digraphs THEN 2 ELSE 1

RECURSIVE WidthSum(_, _)
WidthSum(symbols, k) == IF k = 0 THEN 0 ELSE WidthSum(symbols, k - 1) + Width(symbols[k])

\* the symbol the greedy scan emits at position p of a word
GreedySymbol(word, p) ==
  LET pair == IF p < Len(word) THEN <<word[p], word[p + 1]>> ELSE <<word[p]>>
  IN  CASE pair = <<"e", "e">> -> "ee"
        [] pair = <<"o", "o">> -> "oo"
        [] pair = <<"a", "y">> -> "ay"
        [] pair = <<"o", "w">> -> "ow"
        [] OTHER -> IF word[p] \in {"a", "e", "i", "o", "u"} THEN word[p]
                    ELSE IF word[p] \in {"b", "p", "m", "f", "v", "w", "r"} THEN word[p]
                    ELSE "default"

\* C21: for every word the phonemes are those of the greedy left-to-right scan
\* (a digraph ee, oo, ay, ow consumes two characters, a vowel or one of
\* b p m f v w r emits itself, anything else 'default'); the widths of the
\* symbols sum to the length of the word and every symbol is in the phoneme
\* table or is 'pause'.
C21_GreedyReference ==
  libPc \in {"phonemes", "returned"} =>
    LET pieces == CutAtPause(libRet.phonemes, <<>>)
    IN  /\ Len(pieces) = Len(WordsOfCall)
        /\ \A j \in 1..Len(pieces) :
             /\ WidthSum(pieces[j], Len(pieces[j])) = Len(WordsOfCall[j])
             /\ \A k \in 1..Len(pieces[j]) :
                  /\ WidthSum(pieces[j], k - 1) < Len(WordsOfCall[j])
                  /\ pieces[j][k] = GreedySymbol(WordsOfCall[j], WidthSum(pieces[j], k - 1) + 1)
        /\ \A k \in 1..Len(libRet.phonemes) :
             libRet.phonemes[k] \in PhonemeKeys \cup {"pause"}

C21_Witness ==
  /\ libPc = "phonemes"
  /\ libArgs.text = <<"H", "e", "e">>
  /\ libRet.phonemes = <<"default", "ee", "pause">>

\* the non-empty whitespace-separated tokens of a text, counted by where they
\* start
NonEmptyTokens(text) ==
  Cardinality({i \in 1..Len(text) :
                 ~IsSpace(text[i]) /\ (i = 1 \/ IsSpace(text[i - 1]))})

\* how many of the phonemes are 'pause'
Pauses(phonemes) == Cardinality({k \in 1..Len(phonemes) : phonemes[k] = "pause"})

\* C22: the phoneme sequence holds as many 'pause' symbols as the text has
\* words (non-empty tokens after case-folding, stripping punctuation and
\* splitting on whitespace); leading, trailing or repeated whitespace adds none.
C22_OnePausePerWord ==
  libPc \in {"phonemes", "returned"} =>
    Pauses(libRet.phonemes) = NonEmptyTokens(stripPunctuation(toLowerCase(libArgs.text)))

\* C23: in every timeline a 'pause' frame carries the all-zero weights, any
\* other frame the entry of the phoneme table for its symbol (all-zero for b,
\* p and m) and a symbol without an entry the 'default' entry; "hi bob" with
\* duration 2 gives 7 frames for default, i, pause, b, o, b, pause at i * 2 / 7.
C23_WeightsPerSymbol ==
  libPc = "returned" =>
    /\ \A k \in 1..Len(libRet.data) :
         LET symbol == libRet.phonemes[k]
             viseme == libRet.data[k].viseme
         IN  /\ symbol \in {"pause", "b", "p", "m"}
                  => viseme = [aa |-> 0, ih |-> 0, ou |-> 0, ee |-> 0]
             /\ symbol \in PhonemeKeys => viseme = PHONEME_MAP[symbol]
             /\ symbol \notin PhonemeKeys \cup {"pause"} => viseme = PHONEME_MAP["default"]
             /\ symbol = "default" => viseme = [aa |-> 2, ih |-> 0, ou |-> 0, ee |-> 0]
    /\ (libArgs.text = HiBob /\ libArgs.duration = 2) =>
         /\ libRet.phonemes = <<"default", "i", "pause", "b", "o", "b", "pause">>
         /\ Len(libRet.data) = 7
         /\ \A k \in 1..7 : libRet.data[k].num = (k - 1) * 2 /\ libRet.data[k].den = 7

C23_Witness ==
  /\ libPc = "returned"
  /\ libArgs.text = HiBob /\ libArgs.duration = 2
  /\ libRet.data[1].viseme = Viseme(2, 0, 0, 0)
  /\ libRet.data[2].viseme = Viseme(0, 9, 0, 0)
  /\ libRet.data[3].viseme = ZeroViseme
  /\ libRet.data[4].viseme = ZeroViseme
  /\ libRet.data[7].num = 12

\* C24: whenever the 'play' handler has run, for the first start or a resume,
\* the cursor is 0 and the start time is the current clock value, and the
\* tick the handler makes has emitted frame 0.
C24_PlayResetsCursor ==
  \A s \in Slots :
    lastOp = <<"play", s>> =>
      /\ sess[s].lipSyncIndex = 0
      /\ sess[s].startTime = now
      /\ Elapsed(s) = 0
      /\ \A name \in VisemeNames :
           (sess[s].cap # Null /\ name \in ExpressionsOf(sess[s].cap))
             => mouth[sess[s].cap][name] = sess[s].lipSyncData[1].viseme[name]

C24_Witness ==
  \E s \in Slots :
    /\ lastOp = <<"play", s>>
    /\ sess[s].position >= 2
    /\ sess[s].cap # Null
    /\ sess[s].preSwap = -1 /\ sess[s].duration = 4
    /\ now >= 3
    /\ mouth[sess[s].cap] = sess[s].lipSyncData[1].viseme
    /\ mouth[sess[s].cap] # ZeroViseme

\* C25: at every tick while the audio is playing, the elapsed time the tick
\* uses equals the playback position of the audio, whatever start, pause and
\* resume events came before.
C25_LockStep ==
  \A s \in Slots :
    (/\ lastOp = <<"Tick", s>>
     /\ Playing(sess[s])
     /\ sess[s].position < sess[s].duration)
      => Elapsed(s) = sess[s].position

\* C26: a tick (the one the 'play' handler makes included) and the 'ended'
\* handler write mouth-shape weights only, those of the session's avatar that
\* the avatar exposes; the emotion weights and the current action are left
\* as they were.
C26_MouthOnly ==
  [][\A s \in Slots :
       lastOp' \in {<<"Tick", s>>, <<"play", s>>, <<"ended", s>>}
         => /\ emotion' = emotion
            /\ UNCHANGED <<currentAction, currentClip, actions, mixer>>
            /\ \A v \in VrmIds : \A name \in VisemeNames :
                 mouth'[v][name] # mouth[v][name]
                   => (v = sess[s].cap /\ name \in ExpressionsOf(v))]_vars

C26_Witness ==
  \E s \in Slots :
    /\ lastOp = <<"Tick", s>>
    /\ sess[s].cap # Null
    /\ emotion[sess[s].cap]["happy"] = 10
    /\ currentAction # Null /\ currentClip = "wave"
    /\ sess[s].lipSyncIndex >= 1
    /\ mouth[sess[s].cap] = sess[s].lipSyncData[sess[s].lipSyncIndex + 1].viseme
    /\ mouth[sess[s].cap] # ZeroViseme

\* C27: whatever the order in which the loads of the requests complete, once
\* no load is in flight the current action plays the clip of the request
\* issued last among those whose load completed.
C27_LastRequestWins ==
  [][(lastOp' = <<"LoadResolve", 0>> /\ loads' = <<>>)
       => loads[1].newer \in {"", currentClip'}]_vars

\* C28: at any time at most one speech session of a loaded avatar has an
\* animation frame requested, so at most one session is writing mouth-shape
\* weights.
C28_SingleSession ==
  Cardinality({s \in Slots : /\ sess[s].live
                             /\ sess[s].animationId
                             /\ sess[s].cap # Null}) <= 1

\* C29: in every state of a speech session, also after 'loadedmetadata' has
\* replaced the timeline, the timeline has as many frames as the one built
\* from the estimate, at least one, and the cursor is the index of one of them.
C29_CursorInBounds ==
  \A s \in Slots :
    sess[s].live =>
      /\ Len(sess[s].lipSyncData) >= 1
      /\ Len(sess[s].lipSyncData) =
           Len(generateLipSyncData(sess[s].text, EstimateDuration))
      /\ sess[s].lipSyncIndex \in 0..(Len(sess[s].lipSyncData) - 1)

\* a tick after the rebuild has moved the cursor to the last frame
C29_Witness ==
  \E s \in Slots :
    /\ lastOp = <<"Tick", s>>
    /\ sess[s].preSwap >= 0
    /\ sess[s].preSwap < sess[s].lipSyncIndex
    /\ sess[s].lipSyncIndex = Len(sess[s].lipSyncData) - 1

\* C30: while the avatar selected last is still loading there is no mixer and
\* no current action, and a current action always belongs to the mixer of the
\* loaded avatar and was retargeted against that avatar.
C30_SwapIsolation ==
  /\ vrmUrl \in vrmLoads => (mixer = Null /\ currentAction = Null)
  /\ currentAction # Null =>
       /\ actions[currentAction].mixer = mixer
       /\ actions[currentAction].vrm = currentVrm
====
